---- MODULE Spec2Model ----
(***************************************************************************)
(* SmartAttend server (src/unnamed/part_000): the in-memory user store,    *)
(* the session registry, the attendance recorder, the socket broadcast and *)
(* the token-protected HTTP handlers, as one state machine.  One action    *)
(* per synchronous run of a handler; a handler that awaits is split at the *)
(* await.                                                                  *)
(***************************************************************************)
EXTENDS Integers, Sequences, FiniteSets, TLC

(* ------------------------------ bounds --------------------------------- *)
\* The wall clock takes the values 0..MaxTime.
MaxTime == 1
\* At most MaxSessions start requests get past the role check.
MaxSessions == 2
\* At most MaxMarks attendance records are appended in all.
MaxMarks == 2

(* ------------------------- values and helpers -------------------------- *)
\* JavaScript's undefined, for an absent string field.
None == "undefined"
\* An absent timestamp (a session object is built without endTime).
NoTime == -1
\* parseInt's NaN: equal to no session id.
NaN == -1

Range(f) == {f[i] : i \in DOMAIN f}

RECURSIVE SumSeq(_)
SumSeq(nums) == IF nums = <<>> THEN 0 ELSE Head(nums) + SumSeq(Tail(nums))

\* Math.round(sum / n) for sum >= 0: halves round up; 0 / 0 is NaN.
RoundDiv(sum, n) == IF n = 0 THEN NaN ELSE (2 * sum + n) \div (2 * n)

\* Array.prototype.find: the first element satisfying P, or <<>> when none does,
\* as a sequence of length 0 or 1 holding the element's index.
FindIndex(seq, P(_)) == LET hits == {i \in DOMAIN seq : P(seq[i])} IN IF hits = {} THEN <<>> ELSE <<CHOOSE i \in hits : \A j \in hits : i <= j>>

(* ------------------------------ seed data ------------------------------ *)
\* bcrypt.hash / bcrypt.compare: the hash of a secret matches that secret only.
Hash(pw) == <<"bcrypt", pw>>
Compare(pw, hash) == hash = Hash(pw)

DemoPassword == "password123"

demoUsers == <<
  [id |-> "1", username |-> "principal", password |-> Hash(DemoPassword), role |-> "principal", name |-> "Dr. Principal", department |-> None, rollNo |-> None],
  [id |-> "2", username |-> "hod", password |-> Hash(DemoPassword), role |-> "hod", name |-> "Prof. HOD", department |-> "CSE", rollNo |-> None],
  [id |-> "3", username |-> "faculty", password |-> Hash(DemoPassword), role |-> "faculty", name |-> "Dr. Faculty", department |-> "CSE", rollNo |-> None],
  [id |-> "4", username |-> "student", password |-> Hash(DemoPassword), role |-> "student", name |-> "Alice Johnson", rollNo |-> "CS001", department |-> None],
  [id |-> "5", username |-> "student2", password |-> Hash(DemoPassword), role |-> "student", name |-> "Bob Smith", rollNo |-> "CS002", department |-> None] >>

\* The payload login signs for a user.
Claims(u) == [id |-> u.id, username |-> u.username, role |-> u.role, name |-> u.name, department |-> u.department, rollNo |-> u.rollNo]

\* Token lifetime ('24h') in clock ticks.
TokenTTL == 1

\* jwt.sign: a token carries its payload, whether JWT_SECRET signed it, and its expiry.
Sign(claims, at) == [claims |-> claims, signed |-> TRUE, exp |-> at + TokenTTL]

\* A signed payload that login does not issue: any holder of JWT_SECRET can sign one.
\* It stands for a second faculty account.
otherFaculty == [id |-> "9", username |-> "faculty2", role |-> "faculty", name |-> "Dr. Other", department |-> "ECE", rollNo |-> None]

\* The payloads of the tokens that requests carry.
TokenClaims == {Claims(demoUsers[i]) : i \in 1..4} \cup {otherFaculty}

\* The roster (students), static.
students == <<
  [id |-> "CS001", name |-> "Alice Johnson", department |-> "CSE", attendance |-> 94, marks |-> 91],
  [id |-> "CS002", name |-> "Bob Smith", department |-> "CSE", attendance |-> 74, marks |-> 72],
  [id |-> "CS003", name |-> "Carol Davis", department |-> "CSE", attendance |-> 80, marks |-> 78],
  [id |-> "CS004", name |-> "David Wilson", department |-> "CSE", attendance |-> 69, marks |-> 65],
  [id |-> "EC001", name |-> "Eva Brown", department |-> "ECE", attendance |-> 88, marks |-> 85],
  [id |-> "EC002", name |-> "Frank Miller", department |-> "ECE", attendance |-> 92, marks |-> 88],
  [id |-> "EE001", name |-> "Grace Lee", department |-> "EEE", attendance |-> 85, marks |-> 82],
  [id |-> "IT001", name |-> "Henry Taylor", department |-> "IT", attendance |-> 91, marks |-> 89],
  [id |-> "ME001", name |-> "Ivy Anderson", department |-> "MECH", attendance |-> 78, marks |-> 75] >>

(* ------------------------------- state --------------------------------- *)
VARIABLES now, initPc, users, sessions, pending, enders, firstEnd, connected, rooms, inbox, emitted, last

vars == <<now, initPc, users, sessions, pending, enders, firstEnd, connected, rooms, inbox, emitted, last>>

\* now       Date.now() / new Date(), in clock ticks
\* initPc    where the listen callback stands: "start", "hashing" (suspended in
\*           initializeDemoData at bcrypt.hash) or "done"
\* users     the users array
\* sessions  the sessions array
\* pending   the start handlers suspended at QRCode.toDataURL
\* enders    for each session, the identities whose end request deactivated it (history)
\* firstEnd  for each session, the time of its first successful end request, NoTime before it (history)
\* connected the connected sockets; rooms: the session codes each has joined
\* inbox     the events each socket has been sent; emitted: every event emitted (history)
\* last      the response just sent, NoResponse once it has left

(* ------------------------- the requests tried -------------------------- *)
Sockets == {"k1"}
StudentIds == {"CS001", "CS002"}
Suffixes == {"k3x9", "z"}
ClassNames == {None, "", "Math"}
NameInputs == {None, "", "Al"}

\* The tokens tried: one freshly signed for each payload, an expired one and one
\* that JWT_SECRET did not sign.
Tokens == {Sign(c, now) : c \in TokenClaims} \cup {Sign(Claims(demoUsers[3]), now - TokenTTL), [claims |-> Claims(demoUsers[3]), signed |-> FALSE, exp |-> now + TokenTTL]}

\* The Authorization headers tried: none, a scheme with no token, a scheme and a token.
AuthHeaders == {<<>>, <<"Bearer">>} \cup {<<"Bearer", t>> : t \in Tokens}

Credentials == {<<"faculty", DemoPassword, "faculty">>, <<"faculty", "wrong", "faculty">>, <<"faculty", None, "faculty">>, <<"faculty", DemoPassword, "student">>, <<"student", DemoPassword, "student">>, <<"nobody", DemoPassword, "faculty">>}

(* ------------------------------ responses ------------------------------ *)
Respond(op, status, body) == [op |-> op, status |-> status, body |-> body]
Err(msg) == [error |-> msg]
NoResponse == Respond("none", 0, Err(None))

Init ==
  /\ now = 0
  /\ initPc = "start"
  /\ users = <<>>
  /\ sessions = <<>>
  /\ pending = <<>>
  /\ enders = <<>>
  /\ firstEnd = <<>>
  /\ connected = {}
  /\ rooms = [s \in Sockets |-> {}]
  /\ inbox = [s \in Sockets |-> <<>>]
  /\ emitted = <<>>
  /\ last = NoResponse

\* The server is listening (requests are handled from the listen callback on)
\* and the previous response has left.
Ready == initPc # "start" /\ last = NoResponse

\* res.json / res.status(..).json: the response leaves the server.
ResponseSent ==
  /\ last # NoResponse
  /\ last' = NoResponse
  /\ UNCHANGED <<now, initPc, users, sessions, pending, enders, firstEnd, connected, rooms, inbox, emitted>>

(* ------------------------------- clock --------------------------------- *)
Tick ==
  /\ last = NoResponse
  /\ now < MaxTime
  /\ now' = now + 1
  /\ UNCHANGED <<initPc, users, sessions, pending, enders, firstEnd, connected, rooms, inbox, emitted, last>>

(* ------------------------ seed-data initialization --------------------- *)
\* server.listen's callback: initializeDemoData runs up to its await.
Listen ==
  /\ initPc = "start"
  /\ initPc' = IF Len(users) = 0 THEN "hashing" ELSE "done"
  /\ UNCHANGED <<now, users, sessions, pending, enders, firstEnd, connected, rooms, inbox, emitted, last>>

\* bcrypt.hash has resolved: users = demoUsers.
InitResume ==
  /\ initPc = "hashing"
  /\ last = NoResponse
  /\ users' = demoUsers
  /\ initPc' = "done"
  /\ UNCHANGED <<now, sessions, pending, enders, firstEnd, connected, rooms, inbox, emitted, last>>

(* ---------------------------- authentication --------------------------- *)
\* authHeader && authHeader.split(' ')[1], as a sequence of length 0 or 1.
HeaderToken(h) == IF Len(h) >= 2 THEN <<h[2]>> ELSE <<>>

\* jwt.verify: JWT_SECRET signed the token and it has not expired.
VerifyNoExpiry(t) == t.signed
Verify(t) == t.signed /\ now < t.exp

\* authenticateToken: 401 without a token, 403 when verification fails, else 0:
\* next() is called with req.user set to the payload.
AuthStatus(h) == IF HeaderToken(h) = <<>> THEN 401 ELSE IF ~Verify(HeaderToken(h)[1]) THEN 403 ELSE 0

AuthError(h) == IF AuthStatus(h) = 401 THEN Err("Access token required") ELSE Err("Invalid token")

ReqUser(h) == HeaderToken(h)[1].claims

(* -------------------------------- login -------------------------------- *)
UserSummary(u) == [id |-> u.id, username |-> u.username, role |-> u.role, name |-> u.name, department |-> u.department, rollNo |-> u.rollNo]

\* The response of POST /api/auth/login.  bcrypt.compare rejects a missing
\* password, which the handler's catch turns into a 500.
LoginResponse(username, password, role) ==
  LET found == FindIndex(users, LAMBDA u : u.username = username /\ u.role = role)
  IN IF found = <<>> THEN Respond("login", 401, Err("Invalid credentials"))
     ELSE LET user == users[found[1]]
          IN IF password = None THEN Respond("login", 500, Err("Illegal arguments"))
             ELSE IF ~Compare(password, user.password) THEN Respond("login", 401, Err("Invalid credentials"))
             ELSE Respond("login", 200, [success |-> TRUE, token |-> Sign(Claims(user), now), user |-> UserSummary(user)])

\* POST /api/auth/login.  The handler awaits bcrypt.compare and reads no shared
\* state afterwards.
Login(username, password, role) ==
  /\ Ready
  /\ last' = LoginResponse(username, password, role)
  /\ UNCHANGED <<now, initPc, users, sessions, pending, enders, firstEnd, connected, rooms, inbox, emitted>>

(* ---------------------------- start session ---------------------------- *)
\* generateSessionCode: `ATT-${Date.now()}-${Math.random().toString(36).substr(2, 8)}`.
\* What Math.random yields is an input of the request.
generateSessionCode(ms, suffix) == <<"ATT", ms, suffix>>

SessionCodes == {generateSessionCode(ms, x) : ms \in 0..MaxTime, x \in Suffixes}

\* QRCode.toDataURL: a function of the session code.
toDataURL(code) == <<"data:image/png", code>>

\* className || 'Computer Science 101'
ClassLabel(className) == IF className \in {None, ""} THEN "Computer Science 101" ELSE className

\* sessions.length + 1, read when the handler builds its session.
NextSessionIdActive == Cardinality({i \in DOMAIN sessions : sessions[i].isActive}) + 1
NextSessionId == Len(sessions) + 1

\* The session object a resumed start handler builds from what it held across the await.
NewSession(p) == [id |-> NextSessionId, sessionCode |-> p.sessionCode, professorId |-> p.user.id, professorName |-> p.user.name, className |-> ClassLabel(p.className), qrCode |-> toDataURL(p.sessionCode), isActive |-> TRUE, startTime |-> now, endTime |-> NoTime, attendees |-> <<>>]

\* The role check of POST /api/sessions/start.
MayStartNotStudent(user) == user.role # "student"
MayStart(user) == user.role = "faculty"

\* POST /api/sessions/start up to `await QRCode.toDataURL`: authenticateToken, the
\* role check, generateSessionCode.
StartBegin(h, className, suffix) ==
  /\ Ready
  /\ IF AuthStatus(h) # 0
       THEN /\ last' = Respond("start", AuthStatus(h), AuthError(h))
            /\ UNCHANGED pending
       ELSE IF ~MayStart(ReqUser(h))
         THEN /\ last' = Respond("start", 403, Err("Only faculty can start sessions"))
              /\ UNCHANGED pending
         ELSE /\ Len(sessions) + Len(pending) < MaxSessions
              /\ pending' = Append(pending, [sessionCode |-> generateSessionCode(now, suffix), user |-> ReqUser(h), className |-> className])
              /\ UNCHANGED last
  /\ UNCHANGED <<now, initPc, users, sessions, enders, firstEnd, connected, rooms, inbox, emitted>>

RemoveAt(seq, k) == SubSeq(seq, 1, k - 1) \o SubSeq(seq, k + 1, Len(seq))

\* The rest of the handler, once toDataURL has resolved: build the session, push
\* it, respond.  Suspended handlers resume in any order.
StartResumeUnshift(k) ==
  /\ last = NoResponse
  /\ k \in DOMAIN pending
  /\ LET session == NewSession(pending[k])
     IN /\ sessions' = <<session>> \o sessions
        /\ last' = Respond("start", 200, [success |-> TRUE, session |-> session, qrCode |-> session.qrCode])
  /\ enders' = <<{}>> \o enders
  /\ firstEnd' = <<NoTime>> \o firstEnd
  /\ pending' = RemoveAt(pending, k)
  /\ UNCHANGED <<now, initPc, users, connected, rooms, inbox, emitted>>
StartResume(k) ==
  /\ last = NoResponse
  /\ k \in DOMAIN pending
  /\ LET session == NewSession(pending[k])
     IN /\ sessions' = Append(sessions, session)
        /\ last' = Respond("start", 200, [success |-> TRUE, session |-> session, qrCode |-> session.qrCode])
  /\ enders' = Append(enders, {})
  /\ firstEnd' = Append(firstEnd, NoTime)
  /\ pending' = RemoveAt(pending, k)
  /\ UNCHANGED <<now, initPc, users, connected, rooms, inbox, emitted>>

(* --------------------------- mark attendance --------------------------- *)
\* sessions.find(s => s.sessionCode === sessionCode && s.isActive)
ActiveSession(sessionCode) == FindIndex(sessions, LAMBDA s : s.sessionCode = sessionCode /\ s.isActive)

\* session.attendees.some(att => att.studentId === studentId)
alreadyMarkedByName(session, studentId) == \E a \in DOMAIN session.attendees : session.attendees[a].studentName = studentId
alreadyMarkedNever(session, studentId) == FALSE
alreadyMarked(session, studentId) == \E a \in DOMAIN session.attendees : session.attendees[a].studentId = studentId

\* studentName || `Student ${studentId}`
DisplayNameRaw(studentId, studentName) == studentName
DisplayName(studentId, studentName) == IF studentName \in {None, ""} THEN "Student " \o studentId ELSE studentName

attendanceRecordManual(studentId, studentName) == [studentId |-> studentId, studentName |-> DisplayName(studentId, studentName), timestamp |-> now, method |-> "manual"]
attendanceRecord(studentId, studentName) == [studentId |-> studentId, studentName |-> DisplayName(studentId, studentName), timestamp |-> now, method |-> "qr"]

\* The attendanceUpdate payload, built after the push.
attendanceUpdate(sessionCode, record, attendees) == [sessionCode |-> sessionCode, studentId |-> record.studentId, studentName |-> record.studentName, totalAttendees |-> Len(attendees), timestamp |-> record.timestamp]

\* io.emit: the event is sent once to every connected socket, whatever it joined.
EmitTwice(ev) ==
  /\ emitted' = Append(Append(emitted, ev), ev)
  /\ inbox' = [s \in Sockets |-> IF s \in connected THEN Append(Append(inbox[s], ev), ev) ELSE inbox[s]]
EmitToRoom(ev) ==
  /\ emitted' = Append(emitted, ev)
  /\ inbox' = [s \in Sockets |-> IF s \in connected /\ ev.sessionCode \in rooms[s] THEN Append(inbox[s], ev) ELSE inbox[s]]
Emit(ev) ==
  /\ emitted' = Append(emitted, ev)
  /\ inbox' = [s \in Sockets |-> IF s \in connected THEN Append(inbox[s], ev) ELSE inbox[s]]

\* POST /api/attendance/mark.
Mark(sessionCode, studentId, studentName) ==
  /\ Ready
  /\ LET found == ActiveSession(sessionCode)
     IN IF found = <<>>
          THEN /\ last' = Respond("mark", 404, Err("Session not found or expired"))
               /\ UNCHANGED <<sessions, inbox, emitted>>
          ELSE LET i == found[1]
               IN IF alreadyMarked(sessions[i], studentId)
                    THEN /\ last' = Respond("mark", 200, [success |-> TRUE, message |-> "Attendance already marked", studentName |-> None])
                         /\ UNCHANGED <<sessions, inbox, emitted>>
                    ELSE LET record == attendanceRecord(studentId, studentName)
                             attendees == Append(sessions[i].attendees, record)
                         IN /\ Len(emitted) < MaxMarks
                            /\ sessions' = [sessions EXCEPT ![i].attendees = attendees]
                            /\ Emit(attendanceUpdate(sessionCode, record, attendees))
                            /\ last' = Respond("mark", 200, [success |-> TRUE, message |-> "Attendance marked successfully", studentName |-> record.studentName])
  /\ UNCHANGED <<now, initPc, users, pending, enders, firstEnd, connected, rooms>>

(* ----------------------------- end session ----------------------------- *)
Digit == [c \in {"0", "1", "2", "3", "4", "5", "6", "7", "8", "9"} |-> CASE c = "0" -> 0 [] c = "1" -> 1 [] c = "2" -> 2 [] c = "3" -> 3 [] c = "4" -> 4 [] c = "5" -> 5 [] c = "6" -> 6 [] c = "7" -> 7 [] c = "8" -> 8 [] c = "9" -> 9]

\* parseInt on a sequence of characters: the value of the leading decimal digits,
\* NaN when there is none.
RECURSIVE ParseDigits(_, _)
ParseDigits(chars, acc) == IF chars = <<>> \/ Head(chars) \notin DOMAIN Digit THEN acc ELSE ParseDigits(Tail(chars), 10 * acc + Digit[Head(chars)])

parseInt(chars) == IF chars = <<>> \/ Head(chars) \notin DOMAIN Digit THEN NaN ELSE ParseDigits(chars, 0)

\* The :sessionId path parameters tried: each id up to one past the bound, an id
\* followed by a letter, and a letter alone.
IdChars == {c \in DOMAIN Digit : Digit[c] \in 1..(MaxSessions + 1)}
SessionIdParams == {<<c>> : c \in IdChars} \cup {<<"1", "x">>, <<"x">>}

\* sessions.find(s => s.id === sessionId)
SessionByIndex(sessionId) == IF sessionId + 1 \in DOMAIN sessions THEN <<sessionId + 1>> ELSE <<>>
SessionById(sessionId) == FindIndex(sessions, LAMBDA s : s.id = sessionId)

\* The ownership check of POST /api/sessions/:sessionId/end.
IsOwnerByRole(session, user) == user.role = "faculty"
IsOwnerOfActive(session, user) == session.professorId = user.id /\ session.isActive
IsOwner(session, user) == session.professorId = user.id

\* POST /api/sessions/:sessionId/end.
End(h, param) ==
  /\ Ready
  /\ IF AuthStatus(h) # 0
       THEN /\ last' = Respond("end", AuthStatus(h), AuthError(h))
            /\ UNCHANGED <<sessions, enders, firstEnd>>
       ELSE LET found == SessionById(parseInt(param))
            IN IF found = <<>>
                 THEN /\ last' = Respond("end", 404, Err("Session not found"))
                      /\ UNCHANGED <<sessions, enders, firstEnd>>
                 ELSE IF ~IsOwner(sessions[found[1]], ReqUser(h))
                   THEN /\ last' = Respond("end", 403, Err("Access denied"))
                        /\ UNCHANGED <<sessions, enders, firstEnd>>
                   ELSE /\ sessions' = [sessions EXCEPT ![found[1]].isActive = FALSE, ![found[1]].endTime = now]
                        /\ enders' = [enders EXCEPT ![found[1]] = @ \cup {ReqUser(h).id}]
                        /\ firstEnd' = [firstEnd EXCEPT ![found[1]] = IF @ = NoTime THEN now ELSE @]
                        /\ last' = Respond("end", 200, [success |-> TRUE, message |-> "Session ended successfully"])
  /\ UNCHANGED <<now, initPc, users, pending, connected, rooms, inbox, emitted>>

(* ---------------------------- active sessions -------------------------- *)
\* sessions.filter(s => s.professorId === req.user.id && s.isActive)
activeSessionsAnyOwner(user) == SelectSeq(sessions, LAMBDA s : s.isActive)
activeSessions(user) == SelectSeq(sessions, LAMBDA s : s.professorId = user.id /\ s.isActive)

\* GET /api/sessions/active.
ListActive(h) ==
  /\ Ready
  /\ last' = IF AuthStatus(h) # 0 THEN Respond("listActive", AuthStatus(h), AuthError(h))
             ELSE IF ReqUser(h).role # "faculty" THEN Respond("listActive", 403, Err("Access denied"))
             ELSE Respond("listActive", 200, [sessions |-> activeSessions(ReqUser(h))])
  /\ UNCHANGED <<now, initPc, users, sessions, pending, enders, firstEnd, connected, rooms, inbox, emitted>>

(* ------------------------------ analytics ------------------------------ *)
departments == <<"CSE", "ECE", "EEE", "IT", "MECH">>

\* students.filter(s => s.department === dept)
deptStudents(dept) == SelectSeq(students, LAMBDA s : s.department = dept)

Attendances(list) == [i \in DOMAIN list |-> list[i].attendance]
Marks(list) == [i \in DOMAIN list |-> list[i].marks]

\* list.filter(s => s.attendance < 75)
atRisk(list) == SelectSeq(list, LAMBDA s : s.attendance < 75)

\* deptStudents.length > 0 ? Math.round(sum / length) : 0
avgAttendance(list) == IF Len(list) > 0 THEN RoundDiv(SumSeq(Attendances(list)), Len(list)) ELSE 0

RemarkStrict(avg) == IF avg > 85 THEN "Excellent" ELSE IF avg > 75 THEN "Good" ELSE "Needs Improvement"
Remark(avg) == IF avg >= 85 THEN "Excellent" ELSE IF avg >= 75 THEN "Good" ELSE "Needs Improvement"

\* One entry of the principal's department summary.
deptAnalytics(dept) == [department |-> dept, avgAttendance |-> avgAttendance(deptStudents(dept)), atRiskStudents |-> Len(atRisk(deptStudents(dept))), totalStudents |-> Len(deptStudents(dept)), remark |-> Remark(avgAttendance(deptStudents(dept)))]

\* The role gate shared by the analytics handlers.
Gate(op, h, role, body) == IF AuthStatus(h) # 0 THEN Respond(op, AuthStatus(h), AuthError(h)) ELSE IF ReqUser(h).role # role THEN Respond(op, 403, Err("Access denied")) ELSE body

\* GET /api/analytics/principal.
AnalyticsPrincipal(h) ==
  /\ Ready
  /\ last' = Gate("principal", h, "principal", Respond("principal", 200, [analytics |-> [d \in DOMAIN departments |-> deptAnalytics(departments[d])]]))
  /\ UNCHANGED <<now, initPc, users, sessions, pending, enders, firstEnd, connected, rooms, inbox, emitted>>

RiskStatus(attendance) == IF attendance < 60 THEN "Critical" ELSE IF attendance < 70 THEN "Warning" ELSE "Needs Counseling"

RiskEntry(s) == [id |-> s.id, name |-> s.name, attendance |-> s.attendance, status |-> RiskStatus(s.attendance)]

\* GET /api/analytics/hod.
AnalyticsHod(h) ==
  /\ Ready
  /\ last' = Gate("hod", h, "hod", LET list == deptStudents(ReqUser(h).department) IN Respond("hod", 200, [department |-> ReqUser(h).department, totalStudents |-> Len(list), avgAttendance |-> RoundDiv(SumSeq(Attendances(list)), Len(list)), atRiskStudents |-> [i \in DOMAIN atRisk(list) |-> RiskEntry(atRisk(list)[i])]]))
  /\ UNCHANGED <<now, initPc, users, sessions, pending, enders, firstEnd, connected, rooms, inbox, emitted>>

\* GET /api/analytics/faculty.
AnalyticsFaculty(h) ==
  /\ Ready
  /\ last' = Gate("faculty", h, "faculty", LET list == deptStudents(ReqUser(h).department) IN Respond("faculty", 200, [students |-> list, classStats |-> [totalStudents |-> Len(list), avgAttendance |-> RoundDiv(SumSeq(Attendances(list)), Len(list)), avgMarks |-> RoundDiv(SumSeq(Marks(list)), Len(list)), atRiskCount |-> Len(atRisk(list))]]))
  /\ UNCHANGED <<now, initPc, users, sessions, pending, enders, firstEnd, connected, rooms, inbox, emitted>>

\* GET /api/analytics/student.
AnalyticsStudent(h) ==
  /\ Ready
  /\ last' = Gate("student", h, "student", LET found == FindIndex(students, LAMBDA s : s.id = ReqUser(h).rollNo) IN IF found = <<>> THEN Respond("student", 404, Err("Student not found")) ELSE Respond("student", 200, [student |-> students[found[1]], attendanceTrend |-> <<88, 90, 85, 87, students[found[1]].attendance>>, marksTrend |-> <<82, 88, 85>>]))
  /\ UNCHANGED <<now, initPc, users, sessions, pending, enders, firstEnd, connected, rooms, inbox, emitted>>

(* ------------------------------- sockets ------------------------------- *)
\* io.on('connection')
ConnectWithReplay(s) ==
  /\ Ready
  /\ s \notin connected
  /\ connected' = connected \cup {s}
  /\ inbox' = [inbox EXCEPT ![s] = emitted]
  /\ UNCHANGED <<now, initPc, users, sessions, pending, enders, firstEnd, rooms, emitted, last>>
Connect(s) ==
  /\ Ready
  /\ s \notin connected
  /\ connected' = connected \cup {s}
  /\ UNCHANGED <<now, initPc, users, sessions, pending, enders, firstEnd, rooms, inbox, emitted, last>>

\* socket.on('joinSession'): socket.join(sessionCode)
JoinSession(s, sessionCode) ==
  /\ last = NoResponse
  /\ s \in connected
  /\ rooms' = [rooms EXCEPT ![s] = @ \cup {sessionCode}]
  /\ UNCHANGED <<now, initPc, users, sessions, pending, enders, firstEnd, connected, inbox, emitted, last>>

\* socket.on('disconnect'): the socket has left its rooms.
Disconnect(s) ==
  /\ last = NoResponse
  /\ s \in connected
  /\ connected' = connected \ {s}
  /\ rooms' = [rooms EXCEPT ![s] = {}]
  /\ UNCHANGED <<now, initPc, users, sessions, pending, enders, firstEnd, inbox, emitted, last>>

(* ---------------------------- specifications --------------------------- *)
\* The listen callback, the session lifecycle with the headers H, the class
\* names C and the Math.random suffixes X, and the departure of responses.
Lifecycle(H, C, X) ==
  \/ Listen
  \/ ResponseSent
  \/ \E h \in H, cn \in C, x \in X : StartBegin(h, cn, x)
  \/ \E k \in 1..MaxSessions : StartResume(k)
  \/ \E h \in H, p \in SessionIdParams : End(h, p)
  \/ \E h \in H : ListActive(h)

\* The headers of Spec: none, the seed faculty's token and a student's.
FewHeaders == {<<>>, <<"Bearer", Sign(Claims(demoUsers[3]), now)>>, <<"Bearer", Sign(Claims(demoUsers[4]), now)>>}

\* Spec: the session lifecycle of one faculty account, attendance marking and
\* the sockets, all within one clock tick (the seed hashing takes longer).
Next ==
  \/ Lifecycle(FewHeaders, {None, ""}, Suffixes)
  \/ \E c \in SessionCodes, id \in StudentIds, n \in NameInputs : Mark(c, id, n)
  \/ \E s \in Sockets : Connect(s)
  \/ \E s \in Sockets : JoinSession(s, generateSessionCode(0, "z"))
  \/ \E s \in Sockets : Disconnect(s)

Spec == Init /\ [][Next]_vars

\* SpecTimed: the session lifecycle of two faculty accounts and attendance
\* marking of one student while the clock advances; no socket connects and no
\* mark request supplies a name.
NextTimed ==
  \/ Tick
  \/ Lifecycle(AuthHeaders, {None, ""}, Suffixes)
  \/ \E c \in SessionCodes : Mark(c, "CS001", None)

SpecTimed == Init /\ [][NextTimed]_vars

\* SpecAuth: seed-data initialization, login, the session lifecycle and the
\* analytics views while the clock advances; no attendance is marked and
\* Math.random yields one suffix.
NextAuth ==
  \/ Tick
  \/ InitResume
  \/ Lifecycle(AuthHeaders, ClassNames, {"z"})
  \/ \E c \in Credentials : Login(c[1], c[2], c[3])
  \/ \E h \in AuthHeaders : AnalyticsPrincipal(h)
  \/ \E h \in AuthHeaders : AnalyticsHod(h)
  \/ \E h \in AuthHeaders : AnalyticsFaculty(h)
  \/ \E h \in AuthHeaders : AnalyticsStudent(h)

SpecAuth == Init /\ [][NextAuth]_vars

(* ------------------------------- claims -------------------------------- *)
\* The request carries a token that JWT_SECRET signed and that has not expired.
Authenticated(h) == Len(h) >= 2 /\ h[2].signed /\ now < h[2].exp

\* Nothing but the response changes.
OnlyResponds == UNCHANGED <<now, initPc, users, sessions, pending, enders, firstEnd, connected, rooms, inbox, emitted>>

\* A step of the start handler's first half: it answers, or it suspends at its await.
StartStep == last'.op = "start" \/ pending' # pending

\* A step in which the end handler answers.
EndStep == last'.op = "end"

MarkedAgain == Respond("mark", 200, [success |-> TRUE, message |-> "Attendance already marked", studentName |-> None])

\* C1: in every reachable state each session's attendee sequence holds at most
\* one record per participant id.
C1_OneRecordPerParticipant == \A i \in DOMAIN sessions : \A a, b \in DOMAIN sessions[i].attendees : a # b => sessions[i].attendees[a].studentId # sessions[i].attendees[b].studentId

\* A second mark of a participant has been answered and two participants are recorded.
C1_Witness == last = MarkedAgain /\ \E i \in DOMAIN sessions : Len(sessions[i].attendees) = 2

\* The participant id is in the attendee sequence of the active session matched by the code.
C2_Recorded(c, id) == ActiveSession(c) # <<>> /\ \E a \in DOMAIN sessions[ActiveSession(c)[1]].attendees : sessions[ActiveSession(c)[1]].attendees[a].studentId = id

\* C2: a mark request for a participant id already in the attendee sequence of the
\* matched active session is answered with the already-recorded success and
\* changes nothing else: no record appended, no session state changed, no event.
C2_DuplicateMarkIsNoOp == [][\A c \in SessionCodes, id \in StudentIds, n \in NameInputs : (Mark(c, id, n) /\ C2_Recorded(c, id)) => (last' = MarkedAgain /\ OnlyResponds)]_vars

\* A second mark of a participant has been answered while a listener is connected.
C2_Witness == last = MarkedAgain /\ connected # {} /\ Len(emitted) = 1

\* The code is that of a session that has been ended.
C3_Ended(c) == \E i \in DOMAIN sessions : sessions[i].sessionCode = c /\ ~sessions[i].isActive

\* No step makes an ended session active.
C3_StaysEnded == \A i \in DOMAIN sessions : ~sessions[i].isActive => ~sessions'[i].isActive

\* C3 (as claimed): a mark request carrying the code of an ended session gets
\* the 404 of an unknown code, appends nothing and emits nothing; and an ended
\* session never becomes active again.
C3_EndedCodeIsNotFound == [][(\A c \in SessionCodes, id \in StudentIds, n \in NameInputs : (Mark(c, id, n) /\ C3_Ended(c)) => (last' = Respond("mark", 404, Err("Session not found or expired")) /\ OnlyResponds)) /\ C3_StaysEnded]_vars

\* A mark has been recorded under the code of a session that had been ended.
C3_Witness == last.op = "mark" /\ last.status = 200 /\ \E i, j \in DOMAIN sessions : ~sessions[i].isActive /\ sessions[j].sessionCode = sessions[i].sessionCode /\ Len(sessions[j].attendees) = 1

\* C4 (as claimed): no two sessions of the registry have the same session code.
C4_CodesDistinct == \A i, j \in DOMAIN sessions : i # j => sessions[i].sessionCode # sessions[j].sessionCode

\* Two start requests of the same millisecond drew the same suffix.
C4_Witness == Len(sessions) = 2 /\ sessions[1].sessionCode = sessions[2].sessionCode /\ sessions[1].id # sessions[2].id

\* What C5 says of a step that changes the attendees of session i.
C5_Appended(i) ==
  LET after == sessions'[i].attendees
      rec == after[Len(after)]
      ev == emitted'[Len(emitted')]
  IN /\ after = Append(sessions[i].attendees, rec)
     /\ emitted' = Append(emitted, ev)
     /\ ev.totalAttendees = Len(after)
     /\ ev.sessionCode = sessions[i].sessionCode
     /\ ev.studentId = rec.studentId
     /\ ev.studentName = rec.studentName
     /\ \A s \in Sockets : inbox'[s] = IF s \in connected THEN Append(inbox[s], ev) ELSE inbox[s]

\* C5: a step that appends an attendance record emits exactly one event; every
\* connected socket is sent it once and no other socket is sent anything; its
\* totalAttendees is the length of the session's attendee sequence after the
\* append, and its sessionCode, studentId and studentName are the session's code
\* and the appended record's id and name.
C5_OneEventPerAppend == [][\A i \in DOMAIN sessions : sessions'[i].attendees # sessions[i].attendees => C5_Appended(i)]_vars

\* A connected socket that joined no room has been sent the second event of a session.
C5_Witness == \E s \in connected : rooms[s] = {} /\ Len(inbox[s]) = 2 /\ inbox[s][2].totalAttendees = 2 /\ last.op = "mark"

\* C6: a start request from an authenticated requester whose role is not faculty
\* gets 403 and changes nothing: no session, no suspended handler, no event.
C6_NonFacultyStartForbidden == [][\A h \in AuthHeaders, cn \in ClassNames, x \in Suffixes : (StartStep /\ Authenticated(h) /\ h[2].claims.role # "faculty" /\ StartBegin(h, cn, x)) => (last'.op = "start" /\ last'.status = 403 /\ OnlyResponds)]_vars

\* A start request has been refused for the role while a session exists.
C6_Witness == last = Respond("start", 403, Err("Only faculty can start sessions")) /\ Len(sessions) = 1

\* What C7 says of one end request: 404 and no change when no session has the
\* id, 403 and no change when the requester is not the owner of the session.
C7_Refusals(h, p) ==
  /\ (\A i \in DOMAIN sessions : sessions[i].id # parseInt(p)) => (last'.status = 404 /\ OnlyResponds)
  /\ (\E i \in DOMAIN sessions : sessions[i].id = parseInt(p) /\ sessions[i].professorId # h[2].claims.id) => (last'.status = 403 /\ OnlyResponds)

\* Every inactive session was deactivated by its owner, and by nobody else.
C7_EndedByOwner == \A i \in DOMAIN sessions : ~sessions[i].isActive => enders[i] = {sessions[i].professorId}

\* C7: an authenticated end request for an id not in the registry gets 404, one
\* from a requester who is not the session's owner gets 403, and both change
\* nothing; so every inactive session was deactivated by its owner.
C7_EndNeedsOwner == [][(\A h \in AuthHeaders, p \in SessionIdParams : (EndStep /\ Authenticated(h) /\ End(h, p)) => C7_Refusals(h, p)) /\ C7_EndedByOwner']_vars

\* Another faculty's end request has been refused on a session whose neighbour
\* its owner has ended.
C7_Witness == last = Respond("end", 403, Err("Access denied")) /\ \E i, j \in DOMAIN sessions : sessions[i].isActive /\ ~sessions[j].isActive /\ sessions[i].professorId # sessions[j].professorId

\* C8: the k-th session of the registry has id k, whatever the order in which
\* suspended start handlers resume.
C8_IdsSequential == \A k \in DOMAIN sessions : sessions[k].id = k

\* Two start handlers overlapped: the second session's code was generated
\* before the first session's.
C8_Witness == Len(sessions) = 2 /\ sessions[2].sessionCode[2] < sessions[1].sessionCode[2]

\* The token-protected handlers, by the header they are given.
Protected(h) ==
  \/ StartStep /\ \E cn \in ClassNames, x \in Suffixes : StartBegin(h, cn, x)
  \/ EndStep /\ \E p \in SessionIdParams : End(h, p)
  \/ ListActive(h)
  \/ AnalyticsPrincipal(h)
  \/ AnalyticsHod(h)
  \/ AnalyticsFaculty(h)
  \/ AnalyticsStudent(h)

\* What C9 says of one request with header h.
C9_Rejections(h) ==
  /\ (Len(h) < 2) => (last'.status = 401 /\ OnlyResponds)
  /\ (Len(h) >= 2 /\ (~h[2].signed \/ h[2].exp <= now)) => (last'.status = 403 /\ OnlyResponds)

\* C9: a request to a token-protected operation without a token gets 401 and one
\* with an unsigned or expired token gets 403; the handler does not run: nothing
\* but the response changes.
C9_AuthFailsClosed == [][\A h \in AuthHeaders : (~Authenticated(h) /\ Protected(h)) => C9_Rejections(h)]_vars

\* A token that was fresh one tick earlier has been refused as expired.
C9_Witness == now = 1 /\ last = Respond("start", 403, Err("Invalid token")) /\ Len(sessions) = 1 /\ sessions[1].startTime = 0

\* The seed principal with this username and role, as a sequence of length 0 or 1.
Principal(username, role) == SelectSeq(demoUsers, LAMBDA u : u.username = username /\ u.role = role)

\* What C10 says of one login request.
C10_Served(username, password, role) ==
  LET who == Principal(username, role)
  IN IF who # <<>> /\ password = DemoPassword
       THEN /\ last'.status = 200
            /\ last'.body.token.claims.id = who[1].id
            /\ last'.body.token.claims.role = who[1].role
            /\ last'.body.token.claims.department = who[1].department
            /\ last'.body.token.claims.rollNo = who[1].rollNo
       ELSE password # None => last'.status = 401

\* C10 (as claimed): a login with a seed principal's username, role and secret
\* gets 200 and a token carrying that principal's identity, role, department and
\* roll number; a login matching no principal, or with a wrong secret, gets 401.
C10_LoginAlwaysServed == [][\A c \in Credentials : Login(c[1], c[2], c[3]) => C10_Served(c[1], c[2], c[3])]_vars

\* The seed faculty's own credentials have been refused while the seed data was
\* still being hashed.
C10_Witness == initPc = "hashing" /\ users = <<>> /\ last = Respond("login", 401, Err("Invalid credentials"))

\* C11 (as claimed): in every reachable state every attendance record of every
\* session carries the capture-method tag "scan".
C11_MethodIsScan == \A i \in DOMAIN sessions : \A a \in DOMAIN sessions[i].attendees : sessions[i].attendees[a].method = "scan"

\* C11 (amended): in every reachable state every attendance record of every
\* session carries the capture-method tag "qr".
C11_MethodIsQr == \A i \in DOMAIN sessions : \A a \in DOMAIN sessions[i].attendees : sessions[i].attendees[a].method = "qr"

\* Two marks have appended their records, one of them with a supplied name.
C11_Witness == \E i \in DOMAIN sessions : Len(sessions[i].attendees) = 2 /\ sessions[i].attendees[2].studentName = "Al" /\ sessions[i].attendees[1].method = "qr"

\* A step in which the handler of GET /api/sessions/active answers.
ListStep == last'.op = "listActive"

\* What C12 says of the answer to a faculty requester: the listed sessions are
\* the registry's sessions at strictly increasing positions, and those positions
\* are exactly the ones of the requester's active sessions.
C12_Listed(user) ==
  LET got == last'.body.sessions
      want == {i \in DOMAIN sessions : sessions[i].professorId = user.id /\ sessions[i].isActive}
  IN /\ last'.status = 200
     /\ \E f \in [DOMAIN got -> DOMAIN sessions] :
          /\ \A k \in DOMAIN got : got[k] = sessions[f[k]]
          /\ \A j, k \in DOMAIN got : j < k => f[j] < f[k]
          /\ {f[k] : k \in DOMAIN got} = want

\* C12: an authenticated list request changes nothing but the response; a
\* faculty requester is answered with exactly their own active sessions, each
\* once and in registry order, and any other requester with 403.
C12_ListsOwnActiveInOrder == [][\A h \in AuthHeaders : (ListStep /\ Authenticated(h) /\ ListActive(h)) => (OnlyResponds /\ IF h[2].claims.role = "faculty" THEN C12_Listed(h[2].claims) ELSE last'.status = 403)]_vars

\* A faculty member has been listed their second session alone, their first
\* one being ended.
C12_Witness == last.op = "listActive" /\ last.status = 200 /\ Len(last.body.sessions) = 1 /\ last.body.sessions[1].id = 2 /\ ~sessions[1].isActive /\ sessions[1].professorId = sessions[2].professorId

\* A step in which the handler of POST /api/attendance/mark answers.
MarkStep == last'.op = "mark"

\* The display name C13 expects: the supplied name, or the placeholder when the
\* request carries no name (an absent or an empty studentName).
C13_Expected(id, n) == IF n = None \/ n = "" THEN "Student " \o id ELSE n

\* What C13 says of a mark of participant id under the name n that appended a
\* record to session i.
C13_NameEverywhere(i, id, n) ==
  LET rec == sessions'[i].attendees[Len(sessions'[i].attendees)]
      ev == emitted'[Len(emitted')]
  IN /\ last'.body.studentName = C13_Expected(id, n)
     /\ rec.studentName = C13_Expected(id, n)
     /\ ev.studentName = C13_Expected(id, n)

\* C13: a mark request that appends a record carries one display name in its
\* response, in the appended record and in the broadcast event: the supplied
\* name if there is one, else "Student " followed by the participant id.
C13_OneDisplayName == [][\A c \in SessionCodes, id \in StudentIds, n \in NameInputs : (MarkStep /\ emitted' # emitted /\ Mark(c, id, n)) => C13_NameEverywhere(ActiveSession(c)[1], id, n)]_vars

\* A mark without a name has been answered with the placeholder after a mark
\* with a name was broadcast under that name.
C13_Witness == last = Respond("mark", 200, [success |-> TRUE, message |-> "Attendance marked successfully", studentName |-> "Student CS002"]) /\ Len(emitted) = 2 /\ emitted[1].studentName = "Al" /\ emitted[2].studentName = "Student CS002"

\* A step in which the handler of GET /api/analytics/principal answers.
PrincipalStep == last'.op = "principal"

\* The roster positions of a department's students, and the sum of the
\* attendance at a set of roster positions.
C14_Members(dept) == {i \in DOMAIN students : students[i].department = dept}

RECURSIVE C14_Sum(_)
C14_Sum(S) == IF S = {} THEN 0 ELSE LET i == CHOOSE j \in S : TRUE IN students[i].attendance + C14_Sum(S \ {i})

\* What C14 says of one row of the summary: the counts, a mean that is 0 for an
\* empty department and else the integer nearest to sum / count (halves round
\* up), and the remark by the thresholds 85 and 75 on the reported mean.
C14_Row(row, dept) ==
  LET m == C14_Members(dept)
      n == Cardinality(m)
      avg == row.avgAttendance
  IN /\ row.department = dept
     /\ row.totalStudents = n
     /\ row.atRiskStudents = Cardinality({i \in m : students[i].attendance < 75})
     /\ IF n = 0 THEN avg = 0 ELSE 2 * avg * n <= 2 * C14_Sum(m) + n /\ 2 * C14_Sum(m) + n < 2 * (avg + 1) * n
     /\ row.remark = (IF avg >= 85 THEN "Excellent" ELSE IF avg >= 75 THEN "Good" ELSE "Needs Improvement")

\* The whole summary: one row for each of the five codes, in this order, and
\* the row of the department whose attendances are 94, 74, 80 and 69 reports
\* the mean 79 and the remark "Good".
C14_Summary ==
  LET rows == last'.body.analytics
      codes == <<"CSE", "ECE", "EEE", "IT", "MECH">>
  IN /\ last'.status = 200
     /\ DOMAIN rows = 1..5
     /\ \A k \in 1..5 : C14_Row(rows[k], codes[k])
     /\ {students[i].attendance : i \in C14_Members("CSE")} = {94, 74, 80, 69}
     /\ rows[1].totalStudents = 4 /\ rows[1].avgAttendance = 79 /\ rows[1].remark = "Good"

\* C14: the principal's department summary has, for each of the five fixed
\* department codes, the student count, the count of students below 75, the
\* rounded mean attendance (0 for an empty department) and the remark by the
\* thresholds 85 and 75; for attendances [94, 74, 80, 69] it reports 79, "Good".
C14_DepartmentSummary == [][\A h \in AuthHeaders : (PrincipalStep /\ Authenticated(h) /\ h[2].claims.role = "principal" /\ AnalyticsPrincipal(h)) => C14_Summary]_vars

\* The principal has been served the summary, whose third department has a
\* mean of exactly 85 and is remarked "Excellent".
C14_Witness == last.op = "principal" /\ last.status = 200 /\ last.body.analytics[3].avgAttendance = 85 /\ last.body.analytics[3].remark = "Excellent" /\ users = demoUsers

\* C15: a step that emits an event sends it once to every socket connected at
\* that moment, whatever rooms the socket joined, and to no other socket; no
\* other step sends anything, so a socket that connects later never gets it.
C15_DeliveredToConnected == [][IF emitted' # emitted THEN emitted' = Append(emitted, emitted'[Len(emitted')]) /\ \A s \in Sockets : inbox'[s] = (IF s \in connected THEN Append(inbox[s], emitted'[Len(emitted')]) ELSE inbox[s]) ELSE inbox' = inbox]_vars

\* A socket that was not connected when the first event was emitted holds the
\* second event alone, though the room it joined is not that event's code.
C15_Witness == Len(emitted) = 2 /\ \E s \in connected : inbox[s] = <<emitted[2]>> /\ rooms[s] # {} /\ emitted[2].sessionCode \notin rooms[s]

\* The sequence a is an initial part of the sequence b.
IsPrefix(a, b) == Len(a) <= Len(b) /\ \A k \in DOMAIN a : b[k] = a[k]

\* C16: across every step the registry only grows at its end: each session
\* keeps its position, id, code, owner and class label, and its attendee
\* sequence only grows at its end, its records unchanged, also once it is ended.
C16_AppendOnly == [][Len(sessions) <= Len(sessions') /\ \A i \in DOMAIN sessions : sessions'[i].id = sessions[i].id /\ sessions'[i].sessionCode = sessions[i].sessionCode /\ sessions'[i].professorId = sessions[i].professorId /\ sessions'[i].className = sessions[i].className /\ IsPrefix(sessions[i].attendees, sessions'[i].attendees)]_vars

\* An ended session still holds its two records and a later session follows it.
C16_Witness == Len(sessions) = 2 /\ ~sessions[1].isActive /\ Len(sessions[1].attendees) = 2 /\ sessions[2].isActive /\ last.op = "start"

\* What C17 says of a successful end request for the id in param: the registry
\* differs at most in the active flag and the end timestamp of the session with
\* that id, which is now inactive, and no event is emitted or delivered.
C17_Frame(param) ==
  \E i \in DOMAIN sessions :
    /\ sessions[i].id = parseInt(param)
    /\ ~sessions'[i].isActive
    /\ sessions' = [sessions EXCEPT ![i].isActive = sessions'[i].isActive, ![i].endTime = sessions'[i].endTime]
    /\ UNCHANGED <<emitted, inbox, pending, connected, rooms, users>>

\* C17: a successful end request changes only the active flag and the end
\* timestamp of the session with the given id and emits no event.
C17_EndTouchesTwoFields == [][\A h \in AuthHeaders, p \in SessionIdParams : (EndStep /\ last'.status = 200 /\ Authenticated(h) /\ End(h, p)) => C17_Frame(p)]_vars

\* The second session has been ended with its record in place, while the first
\* is active with a record of its own and both events stay as emitted.
C17_Witness == last = Respond("end", 200, [success |-> TRUE, message |-> "Session ended successfully"]) /\ Len(sessions) = 2 /\ ~sessions[2].isActive /\ Len(sessions[2].attendees) = 1 /\ sessions[1].isActive /\ Len(sessions[1].attendees) = 1 /\ Len(emitted) = 2

\* What C18 says of an end request by the owner on the inactive session i: it
\* succeeds, the session stays inactive with its attendees, and its end
\* timestamp becomes the time of this request.
C18_EndedAgain(i) ==
  /\ last' = Respond("end", 200, [success |-> TRUE, message |-> "Session ended successfully"])
  /\ ~sessions'[i].isActive
  /\ sessions'[i].attendees = sessions[i].attendees
  /\ sessions'[i].endTime = now
  /\ firstEnd'[i] = firstEnd[i]

\* C18: an end request by the owner on a session that is already inactive
\* succeeds, leaves it inactive with its attendees, and overwrites its end
\* timestamp with the time of this later request.
C18_EndAgainOverwrites == [][\A h \in AuthHeaders, p \in SessionIdParams : (EndStep /\ Authenticated(h) /\ End(h, p)) => \A i \in DOMAIN sessions : (sessions[i].id = parseInt(p) /\ ~sessions[i].isActive /\ sessions[i].professorId = h[2].claims.id) => C18_EndedAgain(i)]_vars

\* A session first ended at time 0 has been ended again at time 1: its end
\* timestamp is 1 and its record is in place.
C18_Witness == last.op = "end" /\ last.status = 200 /\ \E i \in DOMAIN sessions : ~sessions[i].isActive /\ firstEnd[i] = 0 /\ sessions[i].endTime = 1 /\ Len(sessions[i].attendees) = 1

\* C19: in every reachable state as many events have been emitted as there are
\* attendance records in all the sessions of the registry.
C19_EventsEqualRecords == Len(emitted) = SumSeq([i \in DOMAIN sessions |-> Len(sessions[i].attendees)])

\* Two records and two events exist, and a mark on a code that matches no
\* active session has just been refused while a session is ended.
C19_Witness == Len(emitted) = 2 /\ last = Respond("mark", 404, Err("Session not found or expired")) /\ \E i \in DOMAIN sessions : ~sessions[i].isActive /\ Len(sessions[i].attendees) = 1

\* The events emitted so far that carry the session code c, in emission order.
C20_EventsOf(c) == SelectSeq(emitted, LAMBDA e : e.sessionCode = c)

\* C20 (as claimed): for each session, the events carrying its code are as many
\* as its attendee records and in the same order: the k-th carries
\* totalAttendees = k and the participant id of the k-th record.
C20_EventsFollowRecords == \A i \in DOMAIN sessions : LET evs == C20_EventsOf(sessions[i].sessionCode) IN Len(evs) = Len(sessions[i].attendees) /\ \A k \in DOMAIN evs : evs[k].totalAttendees = k /\ evs[k].studentId = sessions[i].attendees[k].studentId

\* Two events carry one code and both say totalAttendees = 1: each is the
\* first record of a different session with that code.
C20_Witness == Len(emitted) = 2 /\ emitted[1].sessionCode = emitted[2].sessionCode /\ emitted[1].totalAttendees = 1 /\ emitted[2].totalAttendees = 1

====
